---- MODULE Spec2Model ----
(***************************************************************************)
(* A model of the probabilistic EGNN message-passing layer (EGNN.forward)  *)
(* and of the layer stack (EGNN_Network.forward) of                        *)
(* src/src/modules/encoders/egnn/egnn_pytorch.py.                          *)
(*                                                                         *)
(* Tensors are functions over node indices 1..N (the batch axis is a       *)
(* single graph, B = 1).  Real numbers are integers: the arithmetic of the *)
(* layer (sums, products, comparisons, clamps, fills) is exact on them.    *)
(* The learned maps (the nn.Sequential multilayer perceptrons, LayerNorm,  *)
(* the sigmoid gate) are deterministic integer functions of their input    *)
(* and of a parameter theta that stands for the learned weights; a         *)
(* quotient is kept as a fraction [n, d] (d = 0 is a non-finite value).    *)
(* The model follows the default fourier_features = 0 path and layers     *)
(* without a global attention block (global_linear_attn_every = 0), and    *)
(* takes edges as given (num_edge_tokens = None).                          *)
(***************************************************************************)
EXTENDS Integers, Sequences, FiniteSets, TLC

N == 3              \* nodes per graph (n of feats.shape)
Dim == 3            \* spatial axes of coors_mean / coors_var
FeatDim == 2        \* feature width (dim)
MDim == 2           \* message width (m_dim)
EdgeDim == 1        \* edge feature width (edge_dim)
MaxDepth == 2       \* largest depth of a stack
MaxDegrees == 3     \* largest num_adj_degrees
Sentinel == 100000  \* 1e5, the rank given to masked-out pairs
Inf == 2147483647   \* float('inf'), the default valid_radius
EpsInv == 100000000 \* 1 / eps of safe_div (eps = 1e-8)

Nodes == 1..N
Dims == 1..Dim
FeatIdx == 1..FeatDim
MIdx == 1..MDim

----------------------------------------------------------------------------
(* Arithmetic helpers *)

Abs(x) == IF x < 0 THEN -x ELSE x

\* quotient rounded towards zero
TruncDiv(a, b) == IF a >= 0 THEN a \div b ELSE -((-a) \div b)

RECURSIVE GCD(_, _)
GCD(a, b) == IF b = 0 THEN a ELSE GCD(b, a % b)

RECURSIVE ISqrtFrom(_, _)
ISqrtFrom(x, r) == IF (r + 1) * (r + 1) > x THEN r ELSE ISqrtFrom(x, r + 1)

\* integer part of the square root
ISqrt(x) == ISqrtFrom(x, 0)

\* sum of f[1] + ... + f[n]
RECURSIVE SumTo(_, _)
SumTo(f, n) == IF n = 0 THEN 0 ELSE f[n] + SumTo(f, n - 1)

\* the largest of f[1], ..., f[n]  (n >= 1)
RECURSIVE MaxTo(_, _)
MaxTo(f, n) == IF n = 1 THEN f[1]
               ELSE LET m == MaxTo(f, n - 1) IN IF f[n] > m THEN f[n] ELSE m

BoolInt(b) == IF b THEN 1 ELSE 0

\* f itself, with its values computed once (TLC otherwise recomputes the
\* value of a function expression at every application)
Eval(f) == IF f = f THEN f ELSE f

\* the fraction num/den in lowest terms; den = 0 gives a non-finite value
\* (0/0 is NaN, x/0 is an infinity)
Frac(num, den) ==
    IF den = 0 THEN [n |-> IF num > 0 THEN 1 ELSE IF num < 0 THEN -1 ELSE 0, d |-> 0]
    ELSE LET g == GCD(Abs(num), den) IN [n |-> num \div g, d |-> den \div g]

IsFinite(q) == q.d # 0

----------------------------------------------------------------------------
(* Helper functions of the source *)

\* safe_div without its special case: the plain quotient
safe_div_plain(num, den) == Frac(num, den)

\* safe_div(num, den, eps): num / clamp(den, min = eps), then 0 wherever
\* den = 0.  den is a count, so the clamp changes only den = 0, where the
\* quotient by eps is num * EpsInv.
safe_div(num, den) ==
    LET res == IF den = 0 THEN Frac(num * EpsInv, 1) ELSE Frac(num, den)
    IN  IF den = 0 THEN Frac(0, 1) ELSE res

\* batched_index_select(values, indices, dim): row i of the result holds
\* values[i][indices[i][s]] at slot s
batched_index_select(values, indices) ==
    [i \in Nodes |-> [s \in DOMAIN indices[i] |-> values[i][indices[i][s]]]]

\* SiLU (x * sigmoid(x)) on the integers: x for x > 0, 0 below
SiLU(x) == IF x > 0 THEN x ELSE 0

\* a weight of a linear layer: a value in -1..1 fixed by the parameter theta
Weight(theta, k, p) == ((theta + k + 2 * p) % 3) - 1

\* the output of a perceptron brought into lo..hi (learned weights are small:
\* init_ draws them with deviation init_eps)
Squash(x, lo, hi) == lo + (x % (hi - lo + 1))

\* nn.Linear: row k of the weights applied to x[1..n], plus a bias
Linear(theta, k, x, n, bias) ==
    SumTo([p \in 1..n |-> Weight(theta, k, p) * x[p]], n) + bias

\* CoorsNorm.forward: coors / clamp(|coors|, min = eps) * scale over the last
\* axis; on the integers the norm is the integer square root and the quotient
\* is rounded towards zero (a zero vector stays zero)
CoorsNormVec(v, scale) ==
    LET sq == SumTo([d \in Dims |-> v[d] * v[d]], Dim)
        norm == IF ISqrt(sq) = 0 THEN 1 ELSE ISqrt(sq)
    IN  [d \in Dims |-> TruncDiv(v[d] * scale, norm)]

----------------------------------------------------------------------------
(* Variance tensors: a vector over Dims (diagonal_var) or a Dims x Dims     *)
(* matrix (full covariance)                                                *)

VarAdd(a, b, diag) ==
    IF diag THEN [d \in Dims |-> a[d] + b[d]]
    ELSE [d \in Dims |-> [k \in Dims |-> a[d][k] + b[d][k]]]

\* weight * var, elementwise
VarScale(w, a, diag) ==
    IF diag THEN [d \in Dims |-> w * a[d]]
    ELSE [d \in Dims |-> [k \in Dims |-> w * a[d][k]]]

VarZero(diag) ==
    IF diag THEN [d \in Dims |-> 0] ELSE [d \in Dims |-> [k \in Dims |-> 0]]

\* rel_coors_var.sum(-1) / rel_coors_var.diagonal().sum(-1)
VarTrace(a, diag) ==
    IF diag THEN SumTo(a, Dim) ELSE SumTo([d \in Dims |-> a[d][d]], Dim)

\* (mu ** 2 * var).sum(-1) / mu^T var mu
VarQuad(mu, a, diag) ==
    IF diag THEN SumTo([d \in Dims |-> mu[d] * mu[d] * a[d]], Dim)
    ELSE SumTo([d \in Dims |->
                  SumTo([k \in Dims |-> mu[d] * a[d][k] * mu[k]], Dim)], Dim)

\* self.coors_norm: CoorsNorm over the last axis, or nn.Identity
coors_norm(cfg, v, isVar, diag) ==
    IF ~cfg.norm_coors THEN v
    ELSE IF isVar /\ ~diag
         THEN [d \in Dims |-> CoorsNormVec(v[d], cfg.norm_coors_scale)]
         ELSE CoorsNormVec(v, cfg.norm_coors_scale)

\* sum over slots 1..L of the tensors t[s]
RECURSIVE VarSumTo(_, _, _)
VarSumTo(t, L, diag) ==
    IF L = 0 THEN VarZero(diag) ELSE VarAdd(t[L], VarSumTo(t, L - 1, diag), diag)

----------------------------------------------------------------------------
(* The learned maps of an EGNN layer (EGNN.__init__)                       *)

\* torch.cat((x, y), dim = -1) of x[1..nx] and y[1..ny]
Concat(x, nx, y, ny) ==
    Eval([p \in 1..(nx + ny) |-> IF p <= nx THEN x[p] ELSE y[p - nx]])

\* the hidden layer of a two-layer perceptron: Linear, dropout (off), SiLU
Hidden(theta, x, n) == Eval([q \in 1..2 |-> SiLU(Linear(theta, q, x, n, 0))])

\* self.edge_mlp: Linear, dropout, SiLU, Linear, SiLU
edge_mlp(theta, x, n) ==
    LET h == Hidden(theta, x, n)
    IN  Eval([k \in MIdx |-> SiLU(Squash(Linear(theta + 1, k, h, 2, 1), -1, 2))])

\* self.edge_gate: m_ij * Sigmoid(Linear(m_ij)), the gate being 0 or 1
edge_gate(theta, m) ==
    LET g == Squash(Linear(theta, 1, m, MDim, -1), 0, 1)
    IN  Eval([k \in MIdx |-> m[k] * g])

\* self.coors_mean_mlp: Linear, dropout, SiLU, Linear -> one scalar
coors_mean_mlp(theta, m) ==
    LET h == Hidden(theta + 1, m, MDim)
    IN  Squash(Linear(theta + 2, 1, h, 2, -1), -2, 2)

\* self.coors_var_mlp: Linear, dropout, SiLU, Linear -> one scalar
coors_var_mlp(theta, m) ==
    LET h == Hidden(theta + 2, m, MDim)
    IN  Squash(Linear(theta, 2, h, 2, 1), -2, 2)

\* self.node_norm: LayerNorm (centring; the division by the deviation is
\* left out) or nn.Identity
node_norm(cfg, x) ==
    IF cfg.norm_feats
    THEN [d \in FeatIdx |-> FeatDim * x[d] - SumTo(x, FeatDim)]
    ELSE x

\* a fraction as the integer fed to a perceptron
FracInt(q) == IF q.d = 0 THEN q.n ELSE TruncDiv(q.n, q.d)

\* self.node_mlp: Linear, dropout, SiLU, Linear
node_mlp(theta, x, n) ==
    LET h == Hidden(theta, x, n)
    IN  [d \in FeatIdx |-> Squash(Linear(theta + 2, d, h, 2, 0), -2, 2)]

----------------------------------------------------------------------------
(* EGNN.forward: pairwise statistics                                       *)

\* rel_coors_mean taken from the position of the neighbour alone
rel_coors_mean_absolute(coors_mean) ==
    [i \in Nodes |-> [j \in Nodes |-> [d \in Dims |-> coors_mean[j][d]]]]

\* rel_coors_mean = coors_mean[i] - coors_mean[j]
rel_coors_mean_of(coors_mean) ==
    [i \in Nodes |-> [j \in Nodes |->
        [d \in Dims |-> coors_mean[i][d] - coors_mean[j][d]]]]

\* rel_coors_var = coors_var[i] + coors_var[j]
rel_coors_var_of(coors_var, diag) ==
    [i \in Nodes |-> [j \in Nodes |-> VarAdd(coors_var[i], coors_var[j], diag)]]

\* rel_dist_sum that leaves out the last axis
rel_dist_sum_planar(rcm) ==
    [i \in Nodes |-> [j \in Nodes |->
        SumTo([d \in Dims |-> rcm[i][j][d] * rcm[i][j][d]], Dim - 1)]]

\* rel_dist_sum = (rel_coors_mean ** 2).sum(-1)
rel_dist_sum_of(rcm) ==
    [i \in Nodes |-> [j \in Nodes |->
        SumTo([d \in Dims |-> rcm[i][j][d] * rcm[i][j][d]], Dim)]]

\* rel_dist_std = 2 * trace + 4 * quadratic form
rel_dist_std_of(rcm, rcv, diag) ==
    [i \in Nodes |-> [j \in Nodes |->
        2 * VarTrace(rcv[i][j], diag) + 4 * VarQuad(rcm[i][j], rcv[i][j], diag)]]

\* rel_dist_mean = rel_dist_sum + rel_coors_var_trace
rel_dist_mean_of(rcm, rcv, diag) ==
    LET rds == rel_dist_sum_of(rcm)
    IN  [i \in Nodes |-> [j \in Nodes |-> rds[i][j] + VarTrace(rcv[i][j], diag)]]

----------------------------------------------------------------------------
(* EGNN.forward: neighbour selection                                       *)

use_nearest(cfg) == cfg.num_nearest_neighbors > 0 \/ cfg.only_sparse_neighbors

\* the neighbour count with the self-loops of adj_mat left out of the sums
num_nearest_no_self_loops(cfg, a) ==
    IF a.has_adj /\ cfg.only_sparse_neighbors
    THEN MaxTo([i \in Nodes |->
                  SumTo([j \in Nodes |->
                           BoolInt(a.adj_mat[i][j] /\ i # j)], N)], N)
    ELSE cfg.num_nearest_neighbors

\* the neighbour count handed to topk
num_nearest_of(cfg, a) ==
    IF a.has_adj /\ cfg.only_sparse_neighbors
    THEN MaxTo([i \in Nodes |->
                  SumTo([j \in Nodes |-> BoolInt(a.adj_mat[i][j])], N)], N)
    ELSE cfg.num_nearest_neighbors

\* the radius nbhd_ranking is compared with
valid_radius_of(cfg, a) ==
    IF a.has_adj /\ cfg.only_sparse_neighbors THEN 0 ELSE cfg.valid_radius

\* ranking with the mask fill applied last, over the adjacency fill
ranking_mask_last(a, rel_dist_mean) ==
    LET adj == [i \in Nodes |-> [j \in Nodes |-> a.adj_mat[i][j] /\ i # j]]
        r1  == [i \in Nodes |-> [j \in Nodes |->
                  IF ~a.has_adj THEN rel_dist_mean[i][j]
                  ELSE IF adj[i][j] THEN 0
                  ELSE IF i = j THEN -1 ELSE rel_dist_mean[i][j]]]
    IN  IF a.has_mask
        THEN [i \in Nodes |-> [j \in Nodes |->
                IF a.mask[i] /\ a.mask[j] THEN r1[i][j] ELSE Sentinel]]
        ELSE r1

\* ranking with the diagonal at the sentinel instead of -1
ranking_self_excluded(a, rel_dist_mean) ==
    LET r1 == IF a.has_mask
              THEN [i \in Nodes |-> [j \in Nodes |->
                      IF a.mask[i] /\ a.mask[j] THEN rel_dist_mean[i][j]
                      ELSE Sentinel]]
              ELSE rel_dist_mean
        adj == [i \in Nodes |-> [j \in Nodes |-> a.adj_mat[i][j] /\ i # j]]
    IN  IF a.has_adj
        THEN [i \in Nodes |-> [j \in Nodes |->
                IF adj[i][j] THEN 0 ELSE IF i = j THEN Sentinel ELSE r1[i][j]]]
        ELSE r1

\* ranking: rel_dist_mean, masked-out pairs at 1e5, then (with adj_mat) the
\* diagonal at -1 and the adjacent pairs off the diagonal at 0
ranking_of(a, rel_dist_mean) ==
    LET r1 == IF a.has_mask
              THEN [i \in Nodes |-> [j \in Nodes |->
                      IF a.mask[i] /\ a.mask[j] THEN rel_dist_mean[i][j]
                      ELSE Sentinel]]
              ELSE rel_dist_mean
        adj == [i \in Nodes |-> [j \in Nodes |-> a.adj_mat[i][j] /\ i # j]]
        r2  == [i \in Nodes |-> [j \in Nodes |->
                      IF i = j THEN -1 ELSE r1[i][j]]]
        r3  == [i \in Nodes |-> [j \in Nodes |->
                      IF adj[i][j] THEN 0 ELSE r2[i][j]]]
    IN  IF a.has_adj THEN r3 ELSE r1

\* ranking.topk(num_nearest, ...) raises when asked for more than the N
\* entries of a row
topk_raises(cfg, a) == use_nearest(cfg) /\ num_nearest_of(cfg, a) > N

\* j comes before k in the order topk(largest = False) returns: smaller
\* value first; the order among equal values is the build's (tie)
Before(row, tie, j, k) ==
    \/ row[j] < row[k]
    \/ row[j] = row[k] /\ (IF tie = "low" THEN j < k ELSE j > k)

\* row.topk(K, largest = False): the indices of the K smallest values (K <= N)
topk(row, K, tie) ==
    [s \in 1..K |->
        CHOOSE j \in Nodes :
            Cardinality({k \in Nodes : Before(row, tie, k, j)}) = s - 1]

----------------------------------------------------------------------------
(* EGNN.forward: masks, heads and pooling                                  *)

\* mask = (mask_i * mask_j) & nbhd_mask, or mask_i * mask_j over all pairs
pair_mask_of(a, nearest, nb, nbhd_mask) ==
    [i \in Nodes |-> [s \in DOMAIN nb[i] |->
        /\ a.mask[i]
        /\ a.mask[nb[i][s]]
        /\ (nearest => nbhd_mask[i][s])]]

\* x.clamp_(min = -c, max = c)
clamp(x, c) ==
    LET lo == IF x < -c THEN -c ELSE x
    IN  IF lo > c THEN c ELSE lo

\* the weights with the fill applied to the valid pairs instead
coor_weights_fill_inverted(cfg, a, raw, pmask) ==
    [i \in Nodes |-> [s \in DOMAIN raw[i] |->
        LET filled == IF a.has_mask /\ pmask[i][s] THEN 0 ELSE raw[i][s]
        IN  IF cfg.has_clamp THEN clamp(filled, cfg.coor_weights_clamp_value)
            ELSE filled]]

\* the weights of a coordinate head as they enter the weighted sum:
\* masked_fill_(~mask, 0.) when a mask is given, then the optional clamp
coor_weights_of(cfg, a, raw, pmask) ==
    [i \in Nodes |-> [s \in DOMAIN raw[i] |->
        LET filled == IF a.has_mask /\ ~pmask[i][s] THEN 0 ELSE raw[i][s]
        IN  IF cfg.has_clamp THEN clamp(filled, cfg.coor_weights_clamp_value)
            ELSE filled]]

\* m_ij.masked_fill(~m_ij_mask, 0.) when a mask is given
masked_messages_of(a, m_ij, pmask) ==
    [i \in Nodes |-> [s \in DOMAIN m_ij[i] |->
        IF a.has_mask /\ ~pmask[i][s] THEN [k \in MIdx |-> 0] ELSE m_ij[i][s]]]

\* m_i: the messages of node i pooled over its L slots
m_i_of(cfg, a, m_ij, pmask, L) ==
    [i \in Nodes |-> [k \in MIdx |->
        LET total == SumTo([s \in 1..L |-> m_ij[i][s][k]], L)
            mask_sum == SumTo([s \in 1..L |-> BoolInt(pmask[i][s])], L)
        IN  IF cfg.m_pool_method = "mean"
            THEN IF a.has_mask THEN safe_div(total, mask_sum)
                 ELSE Frac(total, L)
            ELSE Frac(total, 1)]]

\* coors_mean_out computed whether or not the mean head is on
coors_mean_out_always(cfg, coors_mean, w, rel, L) ==
    [i \in Nodes |-> [d \in Dims |->
        SumTo([s \in 1..L |-> w[i][s] * rel[i][s][d]], L) + coors_mean[i][d]]]

\* coors_mean_out: the weighted sum of the relative means plus coors_mean,
\* or coors_mean itself without a mean head
coors_mean_out_of(cfg, coors_mean, w, rel, L) ==
    IF cfg.update_coors_mean
    THEN [i \in Nodes |-> [d \in Dims |->
            SumTo([s \in 1..L |-> w[i][s] * rel[i][s][d]], L) + coors_mean[i][d]]]
    ELSE coors_mean

\* coors_var_out: the weighted sum of the relative variances plus coors_var,
\* or coors_var itself without a variance head
coors_var_out_of(cfg, coors_var, w, rel, L, diag) ==
    IF cfg.update_coors_var
    THEN [i \in Nodes |->
            VarAdd(VarSumTo([s \in 1..L |-> VarScale(w[i][s], rel[i][s], diag)],
                            L, diag),
                   coors_var[i], diag)]
    ELSE coors_var

\* node_out: node_mlp(cat(node_norm(feats), m_i)) + feats, or feats itself
\* without a feature head
node_out_of(cfg, theta, feats, m_i) ==
    IF cfg.update_feats
    THEN [i \in Nodes |->
            LET x == Concat(node_norm(cfg, feats[i]), FeatDim,
                            [k \in MIdx |-> FracInt(m_i[i][k])], MDim)
                y == node_mlp(theta, x, FeatDim + MDim)
            IN  [d \in FeatIdx |-> y[d] + feats[i][d]]]
    ELSE feats

\* EGNN.forward(feats, coors_mean, coors_var, edges, mask, adj_mat,
\* diagonal_var), for a call topk does not reject, as a record of its
\* results and of the locals the properties speak about
EGNN_forward(cfg, theta, tie, feats, coors_mean, coors_var, a) ==
    LET diag    == a.diagonal_var
        nearest == use_nearest(cfg)
        rcv     == Eval(rel_coors_var_of(coors_var, diag))
        rcm     == Eval(rel_coors_mean_of(coors_mean))
        rdstd   == Eval(rel_dist_std_of(rcm, rcv, diag))
        rdmean  == Eval(rel_dist_mean_of(rcm, rcv, diag))
        ranking == Eval(ranking_of(a, rdmean))
        K       == num_nearest_of(cfg, a)
        radius  == valid_radius_of(cfg, a)
    IN  LET L  == IF nearest THEN K ELSE N
            nb == Eval(IF nearest
                       THEN [i \in Nodes |-> topk(ranking[i], K, tie)]
                       ELSE [i \in Nodes |-> [s \in 1..N |-> s]])
            nbhd_ranking == Eval(batched_index_select(ranking, nb))
            nbhd_mask == Eval([i \in Nodes |-> [s \in 1..L |->
                            nbhd_ranking[i][s] <= radius]])
            rel_mean == Eval(batched_index_select(rcm, nb))
            rel_var  == Eval(batched_index_select(rcv, nb))
            dmean    == Eval(batched_index_select(rdmean, nb))
            dstd     == Eval(batched_index_select(rdstd, nb))
            edge_input == Eval([i \in Nodes |-> [s \in 1..L |->
                LET base == Concat(Concat(feats[i], FeatDim,
                                          feats[nb[i][s]], FeatDim),
                                   2 * FeatDim, <<dmean[i][s], dstd[i][s]>>, 2)
                IN  IF a.has_edges
                    THEN Concat(base, 2 * FeatDim + 2,
                                a.edges[i][nb[i][s]], a.edge_dim)
                    ELSE base]])
            edge_input_dim == 2 * FeatDim + 2 + (IF a.has_edges THEN a.edge_dim ELSE 0)
            m_raw == Eval([i \in Nodes |-> [s \in 1..L |->
                LET m == edge_mlp(theta, edge_input[i][s], edge_input_dim)
                IN  IF cfg.soft_edges THEN edge_gate(theta, m) ELSE m]])
            pmask == Eval(IF a.has_mask
                          THEN pair_mask_of(a, nearest, nb, nbhd_mask)
                          ELSE [i \in Nodes |-> [s \in 1..L |-> TRUE]])
            w_mean_raw == Eval([i \in Nodes |-> [s \in 1..L |->
                            coors_mean_mlp(theta, m_raw[i][s])]])
            w_var_raw  == Eval([i \in Nodes |-> [s \in 1..L |->
                            coors_var_mlp(theta, m_raw[i][s])]])
            w_mean == Eval(coor_weights_of(cfg, a, w_mean_raw, pmask))
            w_var  == Eval(coor_weights_of(cfg, a, w_var_raw, pmask))
            n_mean == Eval([i \in Nodes |-> [s \in 1..L |->
                            coors_norm(cfg, rel_mean[i][s], FALSE, diag)]])
            n_var  == Eval([i \in Nodes |-> [s \in 1..L |->
                            coors_norm(cfg, rel_var[i][s], TRUE, diag)]])
            m_ij == Eval(masked_messages_of(a, m_raw, pmask))
            m_i  == Eval(m_i_of(cfg, a, m_ij, pmask, L))
        IN  [nearest |-> nearest, K |-> K, L |-> L,
             rel_dist_mean |-> rdmean, rel_dist_std |-> rdstd,
             ranking |-> ranking, radius |-> radius,
             nbhd_indices |-> nb, nbhd_ranking |-> nbhd_ranking,
             nbhd_mask |-> nbhd_mask, mask |-> pmask,
             m_raw |-> m_raw, m_ij |-> m_ij, m_i |-> m_i,
             coor_mean_raw |-> w_mean_raw, coor_var_raw |-> w_var_raw,
             coor_mean_weights |-> w_mean, coor_var_weights |-> w_var,
             node_out |-> node_out_of(cfg, theta, feats, m_i),
             coors_mean_out |-> coors_mean_out_of(cfg, coors_mean, w_mean, n_mean, L),
             coors_var_out |-> coors_var_out_of(cfg, coors_var, w_var, n_var, L, diag)]

----------------------------------------------------------------------------
(* Configurations and inputs                                               *)

\* EGNN.__init__ and EGNN_Network.__init__ defaults as EGNN_Network builds
\* its layers (norm_feats on); num_positions 0 stands for None
DefaultCfg ==
    [num_nearest_neighbors |-> 0, only_sparse_neighbors |-> FALSE,
     valid_radius |-> Inf, update_feats |-> TRUE, update_coors_mean |-> TRUE,
     update_coors_var |-> TRUE, m_pool_method |-> "sum", soft_edges |-> FALSE,
     has_clamp |-> FALSE, coor_weights_clamp_value |-> 0,
     norm_coors |-> FALSE, norm_coors_scale |-> 2, norm_feats |-> TRUE,
     depth |-> 1, has_token_emb |-> FALSE, num_positions |-> 0,
     has_adj_degrees |-> FALSE, num_adj_degrees |-> 0, adj_dim |-> 0]

\* the flag triples EGNN.__init__ accepts (not all three off)
HeadFlags ==
    {h \in [feats : BOOLEAN, mean : BOOLEAN, var : BOOLEAN] :
        h.feats \/ h.mean \/ h.var}

WithHeads(c, h) ==
    [c EXCEPT !.update_feats = h.feats, !.update_coors_mean = h.mean,
              !.update_coors_var = h.var]

MeanLine == [i \in Nodes |-> <<i, 0, 0>>]
MeanSame == [i \in Nodes |-> <<0, 0, 0>>]
MeanBent == [i \in Nodes |-> <<i % 2, i \div 2, (i * i) % 3>>]
MeanFar  == [i \in Nodes |-> IF i = N THEN <<9, 0, 0>> ELSE <<i - 1, 0, 0>>]

VarNone  == [i \in Nodes |-> <<0, 0, 0>>]
VarIso   == [i \in Nodes |-> <<i % 2, i % 2, i % 2>>]
VarAniso == [i \in Nodes |-> <<i, 0, 1>>]
CovNone  == [i \in Nodes |-> <<<<0, 0, 0>>, <<0, 0, 0>>, <<0, 0, 0>>>>]
CovSym   == [i \in Nodes |-> <<<<1, i % 2, 0>>, <<i % 2, 2, 0>>, <<0, 0, i>>>>]

FeatsA == [i \in Nodes |-> [d \in FeatIdx |-> (i + d) % 2]]
FeatsB == [i \in Nodes |-> [d \in FeatIdx |-> i * d - 2]]

\* feats as token ids, for a network with a token embedding
TokensA == [i \in Nodes |-> i % 2]

AllTrue  == [i \in Nodes |-> TRUE]
AllFalse == [i \in Nodes |-> FALSE]
OneFalse(k) == [i \in Nodes |-> i # k]
OneTrue(k)  == [i \in Nodes |-> i = k]
BoolVecs == {AllTrue, AllFalse} \cup {OneFalse(k) : k \in Nodes}
                                \cup {OneTrue(k) : k \in Nodes}

AdjEmpty == [i \in Nodes |-> [j \in Nodes |-> FALSE]]
AdjChain == [i \in Nodes |-> [j \in Nodes |-> i - j = 1 \/ j - i = 1]]
AdjBand  == [i \in Nodes |-> [j \in Nodes |-> i - j <= 1 /\ j - i <= 1]]
AdjStar  == [i \in Nodes |-> [j \in Nodes |-> i = 1 /\ j # 1]]
AdjFar   == [i \in Nodes |-> [j \in Nodes |-> {i, j} = {1, N}]]
AdjMats  == {AdjEmpty, AdjChain, AdjBand, AdjStar, AdjFar}

EdgesA == [i \in Nodes |-> [j \in Nodes |->
            [e \in 1..EdgeDim |-> (i + 2 * j + e) % 3]]]

\* a call of EGNN_Network.forward with the defaults of its signature
DefaultArgs ==
    [feats |-> FeatsA, coors_mean |-> MeanLine, coors_var |-> VarNone,
     has_adj |-> FALSE, adj_mat |-> AdjEmpty, has_edges |-> FALSE,
     edges |-> EdgesA, edge_dim |-> EdgeDim, has_mask |-> FALSE, mask |-> AllTrue,
     return_coor_changes |-> FALSE, diagonal_var |-> TRUE,
     has_pos_change_flag |-> FALSE, pos_change_flag |-> AllTrue]

WithMask(a, m) == [a EXCEPT !.has_mask = TRUE, !.mask = m]
WithAdj(a, m)  == [a EXCEPT !.has_adj = TRUE, !.adj_mat = m]
WithFlag(a, f) == [a EXCEPT !.has_pos_change_flag = TRUE, !.pos_change_flag = f]

MaskChoices(a) == {a} \cup {WithMask(a, m) : m \in BoolVecs}
AdjChoices(a)  == {a} \cup {WithAdj(a, m) : m \in AdjMats}
FlagChoices(a) == {a} \cup {WithFlag(a, f) : f \in BoolVecs}

----------------------------------------------------------------------------
(* EGNN_Network.forward as a state machine                                 *)

VARIABLES
    cfg,            \* the configuration of the layers (EGNN.__init__) and depth
    theta,          \* the learned parameters
    tie,            \* the order topk gives equal values on this build
    args,           \* the arguments of the call
    heap,           \* the coors_mean tensors allocated so far, by identity
    feats,          \* feats as threaded through the stack
    coors_mean,     \* identity of the tensor coors_mean is bound to
    coors_var,      \* coors_var as threaded through the stack
    coors_mean_,    \* identity of the snapshot coors_mean.clone() (0: none)
    coor_changes,   \* the list coor_changes, as tensor identities
    layer,          \* layers run so far
    pc,             \* "new", "failed", "start", "loop", "done" or "raised"
    last,           \* the latest EGNN.forward call: its inputs and results
    ret,            \* the returned tuple
    layers,         \* the EGNN layer objects that exist
    caller,         \* the tensors the caller passed, as the caller sees them
    largs,          \* the arguments as forward hands them to its layers
    adj_indices     \* the degree map of the adjacency expansion

vars == <<cfg, theta, tie, args, heap, feats, coors_mean, coors_var,
          coors_mean_, coor_changes, layer, pc, last, ret, layers, caller,
          largs, adj_indices>>

\* the state before the network is constructed, for a configuration and
\* the call that is to follow (coors_mean of the caller is heap[1])
Entry(c, th, t, a) ==
    /\ cfg = c
    /\ theta = th
    /\ tie = t
    /\ args = a
    /\ heap = <<a.coors_mean>>
    /\ feats = a.feats
    /\ coors_mean = 1
    /\ coors_var = a.coors_var
    /\ coors_mean_ = 0
    /\ coor_changes = <<>>
    /\ layer = 0
    /\ pc = "new"
    /\ last = [called |-> FALSE, raised |-> FALSE]
    /\ ret = [returned |-> FALSE]
    /\ layers = 0
    /\ caller = [feats |-> a.feats, coors_var |-> a.coors_var,
                 adj_mat |-> a.adj_mat, edges |-> a.edges, mask |-> a.mask,
                 pos_change_flag |-> a.pos_change_flag]
    /\ largs = a
    /\ adj_indices = [i \in Nodes |-> [j \in Nodes |-> 0]]

\* calls that exercise neighbour selection against adjacency: every
\* neighbour count up to one more than N, with and without sparse mode
AdjCfgs ==
    {[DefaultCfg EXCEPT !.num_nearest_neighbors = k,
                        !.only_sparse_neighbors = sp] :
        k \in 0..(N + 1), sp \in BOOLEAN}

AdjArgs ==
    UNION {UNION {AdjChoices(am) :
                    am \in {a, WithMask(a, OneFalse(1)), WithMask(a, OneFalse(N))}} :
           a \in {[DefaultArgs EXCEPT !.coors_mean = m] : m \in {MeanFar, MeanSame}}}

InitAdj ==
    \E c \in AdjCfgs, a \in AdjArgs, t \in {"low", "high"} : Entry(c, 1, t, a)

\* calls that exercise neighbour selection against masks and the radius
RadiusCfgs ==
    {[DefaultCfg EXCEPT !.num_nearest_neighbors = k, !.valid_radius = r] :
        k \in {1, 2}, r \in {Inf, 1}}

RadiusArgs ==
    UNION {MaskChoices(a) :
           a \in {[DefaultArgs EXCEPT !.coors_var = v, !.has_adj = ha,
                                      !.adj_mat = AdjChain] :
                    v \in {VarNone, VarAniso}, ha \in BOOLEAN}}

InitRadius ==
    \E c \in RadiusCfgs, a \in RadiusArgs : Entry(c, 1, "low", a)

\* calls that exercise the three heads, pooling, clamping, normalisation
\* and gating
HeadCfgs ==
    {WithHeads([DefaultCfg EXCEPT !.m_pool_method = pm, !.has_clamp = cl,
                                  !.coor_weights_clamp_value = 1,
                                  !.norm_coors = o[1], !.soft_edges = o[2],
                                  !.num_nearest_neighbors = k], h) :
        pm \in {"sum", "mean"}, cl \in BOOLEAN,
        o \in {<<FALSE, FALSE>>, <<TRUE, FALSE>>, <<FALSE, TRUE>>},
        k \in {0, 2}, h \in HeadFlags}

HeadArgs ==
    LET a == [DefaultArgs EXCEPT !.coors_mean = MeanBent, !.coors_var = VarAniso,
                                 !.feats = FeatsB, !.has_edges = TRUE]
    IN  {a, WithMask(a, OneFalse(1)), WithMask(a, AllFalse)}

InitHeads ==
    \E c \in HeadCfgs, a \in HeadArgs : Entry(c, 1, "low", a)

\* calls that exercise the stack: depth, position freeze, the recorded
\* coordinate sequence
NetCfgs ==
    {WithHeads([DefaultCfg EXCEPT !.depth = dp], h) :
        dp \in 1..MaxDepth, h \in HeadFlags}

NetArgs ==
    UNION {{a, WithFlag(a, AllFalse), WithFlag(a, OneTrue(1)),
            WithFlag(a, OneFalse(2))} :
           a \in {[DefaultArgs EXCEPT !.coors_mean = MeanBent,
                                      !.coors_var = VarIso,
                                      !.return_coor_changes = rc] :
                    rc \in BOOLEAN}}

InitNet ==
    \E c \in NetCfgs, a \in NetArgs, th \in 0..1 : Entry(c, th, "low", a)

\* calls with a full covariance per node
CovCfgs ==
    {[DefaultCfg EXCEPT !.num_nearest_neighbors = k, !.norm_coors = nc] :
        k \in {0, 2}, nc \in BOOLEAN}

CovArgs ==
    UNION {{a, WithMask(a, OneFalse(1))} :
           a \in {[DefaultArgs EXCEPT !.coors_mean = m, !.coors_var = v,
                                      !.diagonal_var = FALSE] :
                    m \in {MeanLine, MeanBent}, v \in {CovNone, CovSym}}}

InitCov ==
    \E c \in CovCfgs, a \in CovArgs : Entry(c, 1, "low", a)

\* constructions with every combination of the update flags and of the
\* pooling method, admissible or not
CtorCfgs ==
    {[DefaultCfg EXCEPT !.update_feats = f, !.update_coors_mean = m,
                        !.update_coors_var = v, !.m_pool_method = pm] :
        f \in BOOLEAN, m \in BOOLEAN, v \in BOOLEAN,
        pm \in {"sum", "mean", "max"}}

InitCtor ==
    \E c \in CtorCfgs, th \in 0..1 : Entry(c, th, "low", DefaultArgs)

\* calls of networks with token and positional embeddings, with and
\* without a mean head and a position freeze
EmbCfgs ==
    {[DefaultCfg EXCEPT !.has_token_emb = te, !.num_positions = np,
                        !.update_coors_mean = m, !.depth = dp] :
        te \in BOOLEAN, np \in {0, N - 1, N}, m \in BOOLEAN,
        dp \in 1..MaxDepth}

EmbArgs(c) ==
    LET a == [DefaultArgs EXCEPT !.coors_mean = MeanBent, !.coors_var = VarIso,
                                 !.feats = IF c.has_token_emb THEN TokensA
                                           ELSE FeatsB]
    IN  {a, WithFlag(a, OneTrue(1)), WithMask(a, OneFalse(1))}

InitEmb ==
    \E c \in EmbCfgs : \E a \in EmbArgs(c) : Entry(c, 1, "low", a)

\* calls of networks with an adjacency expansion
DegCfgs ==
    {[DefaultCfg EXCEPT !.has_adj_degrees = TRUE, !.num_adj_degrees = D,
                        !.adj_dim = ad, !.only_sparse_neighbors = sp] :
        D \in 0..MaxDegrees, ad \in {0, 1}, sp \in BOOLEAN}

DegArgs ==
    UNION {AdjChoices([DefaultArgs EXCEPT !.has_edges = he]) : he \in BOOLEAN}

InitDeg ==
    \E c \in DegCfgs, a \in DegArgs : Entry(c, 1, "low", a)

\* calls in sparse mode: every adjacency, with and without a mask, under
\* several configured neighbour counts and radii
SparseCfgs ==
    {[DefaultCfg EXCEPT !.only_sparse_neighbors = TRUE,
                        !.num_nearest_neighbors = k, !.valid_radius = r] :
        k \in {0, 1, N}, r \in {Inf, 1, 0}}

SparseArgs ==
    UNION {AdjChoices(a) :
           a \in {[DefaultArgs EXCEPT !.coors_var = VarAniso],
                   WithMask([DefaultArgs EXCEPT !.coors_var = VarAniso],
                            OneFalse(N))}}

InitSparse ==
    \E c \in SparseCfgs, a \in SparseArgs : Entry(c, 1, "low", a)

Init ==
    \/ InitAdj \/ InitRadius \/ InitHeads \/ InitNet \/ InitCov
    \/ InitCtor \/ InitEmb \/ InitDeg \/ InitSparse

\* EGNN.__init__ without the assertion on the update flags
egnn_init_unchecked(c) == c.m_pool_method \in {"sum", "mean"}

\* EGNN.__init__: the two assertions hold
egnn_init_ok(c) ==
    /\ c.m_pool_method \in {"sum", "mean"}
    /\ c.update_feats \/ c.update_coors_mean \/ c.update_coors_var

\* EGNN_Network.__init__: the assertion on num_adj_degrees holds and every
\* one of the depth layers is constructed
network_init_ok(c) ==
    /\ ~(c.has_adj_degrees /\ c.num_adj_degrees < 1)
    /\ egnn_init_ok(c)

\* EGNN_Network(...) returns the network with its depth layers
Construct ==
    /\ pc = "new"
    /\ network_init_ok(cfg)
    /\ layers' = cfg.depth
    /\ pc' = "start"
    /\ UNCHANGED <<cfg, theta, tie, args, heap, feats, coors_mean, coors_var,
                   coors_mean_, coor_changes, layer, last, ret, caller,
                   largs, adj_indices>>

\* an assertion of a constructor fails: no network and no layer exists
ConstructFails ==
    /\ pc = "new"
    /\ ~network_init_ok(cfg)
    /\ layers' = 0
    /\ pc' = "failed"
    /\ UNCHANGED <<cfg, theta, tie, args, heap, feats, coors_mean, coors_var,
                   coors_mean_, coor_changes, layer, last, ret, caller,
                   largs, adj_indices>>

\* self.token_emb / self.pos_emb / self.adj_emb: rows of learned tables
token_emb(th, t) == [d \in FeatIdx |-> ((th + t + d) % 3) - 1]
pos_emb(th, i) == [d \in FeatIdx |-> ((th + 2 * i + d) % 3) - 1]
adj_emb(th, deg, dim) == [e \in 1..dim |-> (th + deg + e) % 3]

\* the assertion on the sequence length holds
positions_ok(c) == c.num_positions = 0 \/ N <= c.num_positions

\* the assertion on adj_mat holds
adj_given(c, a) == c.has_adj_degrees => a.has_adj

\* feats after the embeddings: token_emb gives a new tensor, feats +=
\* pos_emb changes the tensor feats is bound to (mine: it is the caller's)
embed(c, th, a) ==
    LET f0 == IF c.has_token_emb
              THEN [i \in Nodes |-> token_emb(th, a.feats[i])]
              ELSE a.feats
        f1 == IF c.num_positions > 0
              THEN [i \in Nodes |-> [d \in FeatIdx |-> f0[i][d] + pos_emb(th, i)[d]]]
              ELSE f0
    IN  [feats |-> f1, mine |-> ~c.has_token_emb]

\* (adj_mat.float() @ adj_mat.float()) > 0
adj_square(adj) ==
    [i \in Nodes |-> [j \in Nodes |-> \E k \in Nodes : adj[i][k] /\ adj[k][j]]]

\* the loop over range(num_adj_degrees - 1) from the given degree on:
\* next_degree_mask = (next - adj).bool() is true wherever the two differ
RECURSIVE expand_degrees(_, _, _, _)
expand_degrees(adj, indices, degree, D) ==
    IF degree > D THEN [adj_mat |-> adj, adj_indices |-> indices]
    ELSE LET next == adj_square(adj)
         IN  expand_degrees(
                next,
                [i \in Nodes |-> [j \in Nodes |->
                    IF next[i][j] # adj[i][j] THEN degree ELSE indices[i][j]]],
                degree + 1, D)

\* adj_mat, adj_indices and edges after the adjacency expansion
expand(c, th, a) ==
    LET x == expand_degrees(a.adj_mat,
                            [i \in Nodes |-> [j \in Nodes |->
                                BoolInt(a.adj_mat[i][j])]],
                            2, c.num_adj_degrees)
        ae == [i \in Nodes |-> [j \in Nodes |->
                  adj_emb(th, x.adj_indices[i][j], c.adj_dim)]]
    IN  IF ~c.has_adj_degrees
        THEN [largs |-> a, adj_indices |-> [i \in Nodes |-> [j \in Nodes |-> 0]]]
        ELSE IF c.adj_dim = 0
        THEN [largs |-> [a EXCEPT !.adj_mat = x.adj_mat],
              adj_indices |-> x.adj_indices]
        ELSE [largs |->
                [a EXCEPT !.adj_mat = x.adj_mat, !.has_edges = TRUE,
                          !.edge_dim = IF a.has_edges THEN a.edge_dim + c.adj_dim
                                       ELSE c.adj_dim,
                          !.edges = [i \in Nodes |-> [j \in Nodes |->
                              IF a.has_edges
                              THEN Concat(a.edges[i][j], a.edge_dim,
                                          ae[i][j], c.adj_dim)
                              ELSE ae[i][j]]]],
              adj_indices |-> x.adj_indices]

\* forward up to its loop: the embeddings, the adjacency expansion, the
\* list [coors_mean] when return_coor_changes, and coors_mean_ =
\* coors_mean.clone(), a new tensor with the same values
Begin ==
    /\ pc = "start"
    /\ positions_ok(cfg)
    /\ adj_given(cfg, args)
    /\ \E e \in {embed(cfg, theta, args)} :
          /\ feats' = e.feats
          /\ caller' = IF e.mine THEN [caller EXCEPT !.feats = e.feats]
                       ELSE caller
    /\ \E x \in {expand(cfg, theta, args)} :
          /\ largs' = x.largs
          /\ adj_indices' = x.adj_indices
    /\ coor_changes' = IF args.return_coor_changes THEN <<coors_mean>> ELSE <<>>
    /\ heap' = Append(heap, heap[coors_mean])
    /\ coors_mean_' = Len(heap) + 1
    /\ pc' = "loop"
    /\ UNCHANGED <<cfg, theta, tie, args, coors_mean, coors_var, layer,
                   last, ret, layers>>

\* an assertion of forward fails: on the sequence length before feats are
\* touched, on adj_mat after the embeddings were applied
BeginRaises ==
    /\ pc = "start"
    /\ ~(positions_ok(cfg) /\ adj_given(cfg, args))
    /\ \E e \in {IF positions_ok(cfg) THEN embed(cfg, theta, args)
                 ELSE [feats |-> feats, mine |-> FALSE]} :
          /\ feats' = e.feats
          /\ caller' = IF e.mine THEN [caller EXCEPT !.feats = e.feats]
                       ELSE caller
    /\ pc' = "raised"
    /\ UNCHANGED <<cfg, theta, tie, args, heap, coors_mean, coors_var,
                   coors_mean_, coor_changes, layer, last, ret, layers,
                   largs, adj_indices>>

\* coors_mean_out written into the tensor coors_mean is bound to
bind_coors_mean_in_place(c, h, id, out) ==
    [heap |-> [h EXCEPT ![id] = out], id |-> id]

\* the tensor EGNN.forward returns as coors_mean_out: a new tensor (einsum
\* + coors_mean) with a mean head, the argument itself without one
bind_coors_mean(c, h, id, out) ==
    IF c.update_coors_mean THEN [heap |-> Append(h, out), id |-> Len(h) + 1]
    ELSE [heap |-> h, id |-> id]

\* the restore applied to the rows whose flag is set
freeze_flagged(value, snapshot, flag) ==
    [i \in Nodes |-> IF flag[i] THEN snapshot[i] ELSE value[i]]

\* coors_mean[~pos_change_flag] = coors_mean_[~pos_change_flag], in place
freeze(value, snapshot, flag) ==
    [i \in Nodes |-> IF ~flag[i] THEN snapshot[i] ELSE value[i]]

\* one iteration of the loop over self.layers: the EGNN layer, the position
\* freeze and the recording of coors_mean
Layer ==
    /\ pc = "loop"
    /\ layer < cfg.depth
    /\ ~topk_raises(cfg, largs)
    /\ \E r \in {EGNN_forward(cfg, theta, tie, feats, heap[coors_mean],
                               coors_var, largs)} :
       \E b \in {bind_coors_mean(cfg, heap, coors_mean, r.coors_mean_out)} :
           /\ heap' = IF args.has_pos_change_flag
                      THEN [b.heap EXCEPT ![b.id] =
                              freeze(@, b.heap[coors_mean_], args.pos_change_flag)]
                      ELSE b.heap
           /\ coors_mean' = b.id
           /\ coor_changes' = IF args.return_coor_changes
                              THEN Append(coor_changes, b.id)
                              ELSE coor_changes
           /\ feats' = r.node_out
           /\ coors_var' = r.coors_var_out
           /\ last' = [called |-> TRUE, raised |-> FALSE, feats |-> feats,
                       coors_mean |-> heap[coors_mean], coors_var |-> coors_var,
                       a |-> largs, r |-> r]
    /\ layer' = layer + 1
    /\ UNCHANGED <<cfg, theta, tie, args, coors_mean_, pc, ret, layers, caller,
                   largs, adj_indices>>

\* the layer's topk rejects a neighbour count above N: forward raises
LayerRaises ==
    /\ pc = "loop"
    /\ layer < cfg.depth
    /\ topk_raises(cfg, largs)
    /\ last' = [called |-> TRUE, raised |-> TRUE, feats |-> feats,
                coors_mean |-> heap[coors_mean], coors_var |-> coors_var,
                a |-> largs,
                r |-> [nearest |-> TRUE, K |-> num_nearest_of(cfg, largs)]]
    /\ pc' = "raised"
    /\ UNCHANGED <<cfg, theta, tie, args, heap, feats, coors_mean, coors_var,
                   coors_mean_, coor_changes, layer, ret, layers, caller,
                   largs, adj_indices>>

\* return feats, coors_mean, coors_var [, coor_changes]
Return ==
    /\ pc = "loop"
    /\ layer = cfg.depth
    /\ ret' = [returned |-> TRUE, feats |-> feats, coors_mean |-> coors_mean,
               coors_var |-> coors_var, coor_changes |-> coor_changes]
    /\ pc' = "done"
    /\ UNCHANGED <<cfg, theta, tie, args, heap, feats, coors_mean, coors_var,
                   coors_mean_, coor_changes, layer, last, layers, caller,
                   largs, adj_indices>>

Next ==
    \/ Construct \/ ConstructFails \/ Begin \/ BeginRaises
    \/ Layer \/ LayerRaises \/ Return

Spec == Init /\ [][Next]_vars

----------------------------------------------------------------------------
(* Properties of EGNN.forward, stated on the latest layer call             *)

Range(f) == {f[s] : s \in DOMAIN f}

\* an EGNN.forward call has run to its end
Ran == last.called /\ ~last.raised

\* C1: with a mask supplied, a pair (i, j) with node i or node j masked out
\* has coordinate-mean weight 0 and coordinate-variance weight 0 when the
\* weighted sums are taken, and a zero message in the pooling sum, in full
\* and in neighbour-restricted mode, with and without clamping.
MaskedPairsContributeNothing ==
    (Ran /\ args.has_mask) =>
        \A i \in Nodes : \A s \in 1..last.r.L :
            (~args.mask[i] \/ ~args.mask[last.r.nbhd_indices[i][s]]) =>
                /\ cfg.update_coors_mean => last.r.coor_mean_weights[i][s] = 0
                /\ cfg.update_coors_var => last.r.coor_var_weights[i][s] = 0
                /\ cfg.update_feats =>
                      \A k \in MIdx : last.r.m_ij[i][s][k] = 0

\* a masked-out pair whose weights and message were non-zero before masking,
\* in neighbour-restricted mode with clamping, all heads on
MaskedPairWitness ==
    /\ Ran /\ args.has_mask /\ last.r.nearest /\ cfg.has_clamp
    /\ cfg.update_coors_mean /\ cfg.update_coors_var /\ cfg.update_feats
    /\ \E i \in Nodes : \E s \in 1..last.r.L :
          /\ ~args.mask[last.r.nbhd_indices[i][s]]
          /\ last.r.coor_mean_raw[i][s] # 0
          /\ last.r.coor_var_raw[i][s] # 0
          /\ \E k \in MIdx : last.r.m_raw[i][s][k] # 0

----------------------------------------------------------------------------
(* Neighbour selection                                                     *)

\* the nodes whose rank for node i is at most 0
RankedFirst(i) == {k \in Nodes : last.r.ranking[i][k] <= 0}

\* the nodes other than i whose rank for node i is at most the rank of i
NotAfterSelf(i) ==
    {k \in Nodes \ {i} : last.r.ranking[i][k] <= last.r.ranking[i][i]}

\* the squared distance of the means of i and j, as the layer was given them
SqDist(i, j) ==
    SumTo([d \in Dims |-> (last.coors_mean[i][d] - last.coors_mean[j][d])
                          * (last.coors_mean[i][d] - last.coors_mean[j][d])], Dim)

\* C2 as stated: under neighbour restriction with adj_mat supplied, every
\* j # i with adj_mat[i, j] true is among the neighbour indices selected for
\* node i, whatever the distance, the mask and the number of closer nodes.
AdjacentAlwaysSelected ==
    (Ran /\ last.r.nearest /\ last.a.has_adj) =>
        \A i \in Nodes : \A j \in Nodes \ {i} :
            last.a.adj_mat[i][j] => j \in Range(last.r.nbhd_indices[i])

\* C2: under neighbour restriction with adj_mat supplied, every j # i with
\* adj_mat[i, j] true is among the neighbour indices selected for node i,
\* whatever the distance and the mask, provided the neighbour count K is at
\* least the number of nodes ranked at most 0 for i (i itself at -1, the
\* adjacent nodes at 0, and unmasked nodes at expected squared distance <= 0).
AdjacentSelectedWhenRoom ==
    (Ran /\ last.r.nearest /\ last.a.has_adj) =>
        \A i \in Nodes : \A j \in Nodes \ {i} :
            (last.a.adj_mat[i][j] /\ last.r.K >= Cardinality(RankedFirst(i)))
                => j \in Range(last.r.nbhd_indices[i])

\* an adjacent pair (i, j) with j selected for i although j is masked out or
\* a closer non-adjacent node was left out, and K below N
AdjacentFarWitness ==
    /\ Ran /\ last.r.nearest /\ last.a.has_adj /\ last.r.K < N
    /\ \E i \in Nodes : \E j \in Nodes \ {i} :
          /\ last.a.adj_mat[i][j]
          /\ last.r.K >= Cardinality(RankedFirst(i))
          /\ j \in Range(last.r.nbhd_indices[i])
          /\ \E k \in Nodes \ {i, j} :
                /\ ~last.a.adj_mat[i][k]
                /\ SqDist(i, k) < SqDist(i, j)
                /\ k \notin Range(last.r.nbhd_indices[i])

NeighbourCountWithinN ==
    (last.called /\ last.r.nearest) =>
        /\ last.r.K <= N
        /\ ~last.raised
        /\ \A i \in Nodes :
              /\ Len(last.r.nbhd_indices[i]) = last.r.K
              /\ Range(last.r.nbhd_indices[i]) \subseteq Nodes
              /\ Cardinality(Range(last.r.nbhd_indices[i])) = last.r.K

----------------------------------------------------------------------------
(* Heads and pooling                                                       *)

\* C5: each head independently: with update_coors_mean off the returned
\* coors_mean is the input coors_mean, with update_coors_var off the returned
\* coors_var is the input coors_var, with update_feats off the returned feats
\* are the input feats, whatever the other heads do.
DisabledHeadPassesThrough ==
    Ran =>
        /\ ~cfg.update_coors_mean => last.r.coors_mean_out = last.coors_mean
        /\ ~cfg.update_coors_var => last.r.coors_var_out = last.coors_var
        /\ ~cfg.update_feats => last.r.node_out = last.feats

\* the mean head off under non-zero mean weights on non-zero relative
\* positions, while the variance head and the feature head change their
\* outputs
DisabledHeadWitness ==
    /\ Ran /\ ~cfg.update_coors_mean
    /\ \E i \in Nodes : \E s \in 1..last.r.L :
          /\ last.r.coor_mean_weights[i][s] # 0
          /\ SqDist(i, last.r.nbhd_indices[i][s]) # 0
    /\ last.r.coors_var_out # last.coors_var
    /\ last.r.node_out # last.feats

\* the number of valid (unmasked) slots of node i
ValidCount(i) == Cardinality({s \in 1..last.r.L : last.r.mask[i][s]})

\* the sum over the valid slots of node i of component k of the messages
RECURSIVE ValidSum(_, _, _)
ValidSum(i, k, n) ==
    IF n = 0 THEN 0
    ELSE (IF last.r.mask[i][n] THEN last.r.m_raw[i][n][k] ELSE 0)
         + ValidSum(i, k, n - 1)

\* C6: with m_pool_method = 'mean' and a mask, the pooled message m_i of a
\* node with no valid neighbour is exactly zero in every component (a finite
\* value), and that of a node with c > 0 valid neighbours is the sum of its
\* unmasked messages divided by c.
MaskedMeanIsSafe ==
    (Ran /\ args.has_mask /\ cfg.m_pool_method = "mean" /\ cfg.update_feats) =>
        \A i \in Nodes : \A k \in MIdx :
            /\ IsFinite(last.r.m_i[i][k])
            /\ ValidCount(i) = 0 => last.r.m_i[i][k] = [n |-> 0, d |-> 1]
            /\ ValidCount(i) > 0 =>
                  /\ last.r.m_i[i][k].n * ValidCount(i)
                        = ValidSum(i, k, last.r.L) * last.r.m_i[i][k].d
                  /\ last.r.m_i[i][k].d > 0

\* a masked mean in which one node has no valid neighbour although it has
\* non-zero messages, and another has several valid neighbours whose mean is
\* not zero
MaskedMeanWitness ==
    /\ Ran /\ args.has_mask /\ cfg.m_pool_method = "mean" /\ cfg.update_feats
    /\ \E i \in Nodes :
          /\ ValidCount(i) = 0
          /\ \E s \in 1..last.r.L : \E k \in MIdx : last.r.m_raw[i][s][k] # 0
    /\ \E i \in Nodes : \E k \in MIdx :
          /\ ValidCount(i) > 1
          /\ last.r.m_i[i][k].n # 0

----------------------------------------------------------------------------
(* Equivariance                                                            *)

\* the vectors coors_mean is translated by
Shifts == {<<2, -3, 5>>, <<-1, 0, 0>>}

Translate(x, t) == [i \in Nodes |-> [d \in Dims |-> x[i][d] + t[d]]]

\* the change of the mean of every node made by a layer
Delta(out, in) == [i \in Nodes |-> [d \in Dims |-> out[i][d] - in[i][d]]]

\* the latest layer call repeated on the coordinate means x
Rerun(x) == EGNN_forward(cfg, theta, tie, last.feats, x, last.coors_var, last.a)

\* C7: a layer run on coors_mean + t (feats, coors_var, mask, adj_mat and
\* edges the same) selects the same neighbour indices and returns the same
\* feats, the same coors_var, and a coors_mean with the same change per node.
TranslationInvariant ==
    Ran =>
        \A t \in Shifts :
            \A r2 \in {Rerun(Translate(last.coors_mean, t))} :
                /\ r2.nbhd_indices = last.r.nbhd_indices
                /\ r2.node_out = last.r.node_out
                /\ r2.coors_var_out = last.r.coors_var_out
                /\ Delta(r2.coors_mean_out, Translate(last.coors_mean, t))
                      = Delta(last.r.coors_mean_out, last.coors_mean)

\* a neighbour-restricted layer call that moved the means, changed the
\* variances and changed the features
TranslationWitness ==
    /\ Ran /\ last.r.nearest /\ last.r.K < N
    /\ last.r.coors_mean_out # last.coors_mean
    /\ last.r.coors_var_out # last.coors_var
    /\ last.r.node_out # last.feats

\* rotations that map the integer lattice to itself: a quarter turn about
\* the third axis, the cyclic exchange of the axes, and their composition
Rotations == {"quarter", "cyclic", "both"}

RotateVec(R, v) ==
    IF R = "quarter" THEN <<-v[2], v[1], v[3]>>
    ELSE IF R = "cyclic" THEN <<v[3], v[1], v[2]>>
    ELSE <<-v[1], v[3], v[2]>>

Rotate(R, x) == [i \in Nodes |-> RotateVec(R, x[i])]

\* a diagonal variance with the same value on every axis, at every node
Isotropic(v) == \A i \in Nodes : \A d \in Dims : v[i][d] = v[i][1]

\* C8: a layer run on R-rotated coors_mean, the isotropic diagonal variance
\* unchanged, returns R applied to the coors_mean returned for the unrotated
\* input, and the same feats.
RotationEquivariant ==
    (Ran /\ args.diagonal_var /\ Isotropic(last.coors_var)) =>
        \A R \in Rotations :
            \A r2 \in {Rerun(Rotate(R, last.coors_mean))} :
                /\ r2.coors_mean_out = Rotate(R, last.r.coors_mean_out)
                /\ r2.node_out = last.r.node_out

\* a layer call under a non-zero isotropic variance that moved the means
\* to positions no rotation here leaves in place, and changed the features
RotationWitness ==
    /\ Ran /\ args.diagonal_var /\ Isotropic(last.coors_var)
    /\ \E i \in Nodes : last.coors_var[i][1] # 0
    /\ last.r.coors_mean_out # last.coors_mean
    /\ last.r.node_out # last.feats
    /\ \A R \in Rotations :
          Rotate(R, last.r.coors_mean_out) # last.r.coors_mean_out

----------------------------------------------------------------------------
(* The layer stack                                                         *)

\* coors_mean as it stands after the layer just run: the layer's output
\* with the rows of the nodes that may not move restored
AfterLayer(out) ==
    IF args.has_pos_change_flag
    THEN [i \in Nodes |-> IF args.pos_change_flag[i] THEN out[i]
                          ELSE args.coors_mean[i]]
    ELSE out

\* C9: with return_coor_changes, the recorded sequence has one entry more
\* than the layers run (depth + 1 at the return), entry 0 is the input
\* coors_mean, the entry a layer adds is coors_mean as it stands after that
\* layer and its position freeze, the last entry is the returned coors_mean,
\* and no step alters an entry recorded before.
CoorChangesRecorded ==
    [][args.return_coor_changes =>
        /\ pc' \in {"loop", "done"} =>
              /\ Len(coor_changes') = layer' + 1
              /\ heap'[coor_changes'[1]] = args.coors_mean
              /\ heap'[coor_changes'[layer' + 1]] = heap'[coors_mean']
        /\ layer' = layer + 1 =>
              heap'[coor_changes'[layer' + 1]] = AfterLayer(last.r.coors_mean_out)'
        /\ \A k \in 1..Len(coor_changes) :
              heap'[coor_changes'[k]] = heap[coor_changes[k]]
        /\ pc' = "done" =>
              /\ ret'.coor_changes = coor_changes'
              /\ Len(ret'.coor_changes) = cfg.depth + 1
              /\ heap'[ret'.coor_changes[cfg.depth + 1]] = heap'[ret'.coors_mean]
     ]_vars

\* a returned sequence of a stack of two layers with a position freeze,
\* whose three entries differ from one another
CoorChangesWitness ==
    /\ pc = "done" /\ args.return_coor_changes /\ cfg.depth = 2
    /\ args.has_pos_change_flag
    /\ Len(ret.coor_changes) = 3
    /\ heap[ret.coor_changes[1]] # heap[ret.coor_changes[2]]
    /\ heap[ret.coor_changes[2]] # heap[ret.coor_changes[3]]
    /\ heap[ret.coor_changes[1]] # heap[ret.coor_changes[3]]

\* C10: with pos_change_flag supplied, after every layer, and so in the
\* returned coors_mean and in every recorded entry, a node whose flag is
\* false holds the coors_mean it had before the stack began, and a node
\* whose flag is true holds the value the latest layer produced.
FrozenNodesKeepInput ==
    (args.has_pos_change_flag /\ layer >= 1) =>
        \A i \in Nodes :
            /\ ~args.pos_change_flag[i] =>
                  /\ heap[coors_mean][i] = args.coors_mean[i]
                  /\ \A k \in 1..Len(coor_changes) :
                        heap[coor_changes[k]][i] = args.coors_mean[i]
                  /\ pc = "done" => heap[ret.coors_mean][i] = args.coors_mean[i]
            /\ args.pos_change_flag[i] =>
                  /\ heap[coors_mean][i] = last.r.coors_mean_out[i]
                  /\ pc = "done" =>
                        heap[ret.coors_mean][i] = last.r.coors_mean_out[i]

\* a stack of two layers returned with one node frozen which the last layer
\* had moved, and a free node moved away from its input
FrozenNodesWitness ==
    /\ pc = "done" /\ args.has_pos_change_flag /\ cfg.depth = 2
    /\ args.return_coor_changes
    /\ \E i \in Nodes :
          /\ ~args.pos_change_flag[i]
          /\ last.r.coors_mean_out[i] # args.coors_mean[i]
    /\ \E i \in Nodes :
          /\ args.pos_change_flag[i]
          /\ heap[ret.coors_mean][i] # args.coors_mean[i]

----------------------------------------------------------------------------
(* The caller's tensors and the constructors                               *)

\* C11 as stated: EGNN_Network.forward modifies no caller-supplied input:
\* feats, coors_mean, coors_var, adj_mat, edges, mask and pos_change_flag
\* hold during and after the call the values they held before it.
InputsUnmodified ==
    /\ caller.feats = args.feats
    /\ heap[1] = args.coors_mean
    /\ caller.coors_var = args.coors_var
    /\ caller.adj_mat = args.adj_mat
    /\ caller.edges = args.edges
    /\ caller.mask = args.mask
    /\ caller.pos_change_flag = args.pos_change_flag

\* C12: constructing a layer fails when update_feats, update_coors_mean and
\* update_coors_var are all false, and then no layer object exists and no
\* forward call runs; it succeeds, with all depth layers, for each of the
\* other seven combinations, given m_pool_method in {sum, mean}.
ConstructionValidated ==
    pc # "new" =>
        /\ ~(cfg.update_feats \/ cfg.update_coors_mean \/ cfg.update_coors_var)
              => pc = "failed" /\ layers = 0 /\ ~last.called /\ ~ret.returned
        /\ (/\ cfg.update_feats \/ cfg.update_coors_mean \/ cfg.update_coors_var
            /\ cfg.m_pool_method \in {"sum", "mean"}
            /\ ~cfg.has_adj_degrees)
              => pc # "failed" /\ layers = cfg.depth

\* a construction with the three flags off and an admissible pooling
\* method, after it failed
ConstructionFailedWitness ==
    /\ pc = "failed" /\ layers = 0
    /\ ~cfg.update_feats /\ ~cfg.update_coors_mean /\ ~cfg.update_coors_var
    /\ cfg.m_pool_method = "mean"

----------------------------------------------------------------------------
(* The adjacency expansion                                                 *)

\* j is reached from i by d edges of adj
RECURSIVE Walk(_, _, _, _)
Walk(adj, d, i, j) ==
    IF d = 1 THEN adj[i][j]
    ELSE \E k \in Nodes : Walk(adj, d - 1, i, k) /\ adj[k][j]

\* the least number of edges, up to D, by which j is reached from i;
\* 0 when there is none
HopDistance(adj, i, j, D) ==
    IF \E d \in 1..D : Walk(adj, d, i, j)
    THEN CHOOSE d \in 1..D :
            /\ Walk(adj, d, i, j)
            /\ \A e \in 1..(d - 1) : ~Walk(adj, e, i, j)
    ELSE 0

\* C13 as stated: with num_adj_degrees = D > 1 the degree map gives every
\* pair of distinct nodes (i, j) the hop distance at which j first becomes
\* reachable from i (1 for adjacent pairs, d for pairs first reachable at
\* d <= D hops, 0 beyond D), and an entry set to 1 is never overwritten.
DegreeMapIsHopDistance ==
    (pc \in {"loop", "done"} /\ cfg.has_adj_degrees /\ cfg.num_adj_degrees > 1) =>
        \A i \in Nodes : \A j \in Nodes \ {i} :
            /\ adj_indices[i][j]
                  = HopDistance(args.adj_mat, i, j, cfg.num_adj_degrees)
            /\ args.adj_mat[i][j] => adj_indices[i][j] = 1

----------------------------------------------------------------------------
(* Distance statistics, radius, variance and sparse mode                   *)

\* mu = mean_i - mean_j of the latest layer call
RelMu(i, j) == [d \in Dims |-> last.coors_mean[i][d] - last.coors_mean[j][d]]

\* entry (d, k) of Sigma = var_i + var_j of the latest layer call
RelSigma(i, j, d, k) ==
    IF last.a.diagonal_var
    THEN (IF d = k THEN last.coors_var[i][d] + last.coors_var[j][d] ELSE 0)
    ELSE last.coors_var[i][d][k] + last.coors_var[j][d][k]

\* tr(Sigma)
TraceSigma(i, j) == SumTo([d \in Dims |-> RelSigma(i, j, d, d)], Dim)

\* mu^T Sigma mu
QuadSigma(i, j) ==
    SumTo([d \in Dims |->
             SumTo([k \in Dims |->
                      RelMu(i, j)[d] * RelSigma(i, j, d, k) * RelMu(i, j)[k]],
                   Dim)], Dim)

\* C14 as stated: for every pair the layer computes the expected squared
\* distance as |mu|^2 + tr(Sigma) and the variance of the squared distance
\* as 2 * tr(Sigma)^2 + 4 * mu^T Sigma mu, with diagonal and with full
\* covariance.
DistanceStatistics ==
    Ran =>
        \A i \in Nodes : \A j \in Nodes :
            /\ last.r.rel_dist_mean[i][j] = SqDist(i, j) + TraceSigma(i, j)
            /\ last.r.rel_dist_std[i][j]
                  = 2 * TraceSigma(i, j) * TraceSigma(i, j) + 4 * QuadSigma(i, j)

\* C15 as stated: in neighbour-restricted mode a selected neighbour whose
\* ranking value exceeds the validity radius stays selected, has
\* coordinate-mean weight 0 and coordinate-variance weight 0, and is left
\* out of the feature pooling, whether or not a mask is supplied.
InvalidNeighboursExcluded ==
    (Ran /\ last.r.nearest) =>
        \A i \in Nodes : \A s \in 1..last.r.L :
            last.r.nbhd_ranking[i][s] > last.r.radius =>
                /\ cfg.update_coors_mean => last.r.coor_mean_weights[i][s] = 0
                /\ cfg.update_coors_var => last.r.coor_var_weights[i][s] = 0
                /\ cfg.update_feats =>
                      \A k \in MIdx : last.r.m_ij[i][s][k] = 0

\* every entry of a diagonal variance is non-negative
NonNegative(v) == \A i \in Nodes : \A d \in Dims : v[i][d] >= 0

\* C16 as stated: in the diagonal case, if every entry of the input
\* coors_var is non-negative then every entry of coors_var is non-negative
\* after each layer of the stack, for any depth, any variance weights
\* (clamped or not) and any mask.
VarianceStaysNonNegative ==
    (args.diagonal_var /\ NonNegative(args.coors_var)) =>
        /\ NonNegative(coors_var)
        /\ pc = "done" => NonNegative(ret.coors_var)

\* the adjacency-declared neighbours of i, self-loops excluded (none
\* without adj_mat), and the entries of row i of adj_mat, self-loops included
OutNeighbours(i) ==
    {j \in Nodes \ {i} : last.a.has_adj /\ last.a.adj_mat[i][j]}

RowEntries(i) == {j \in Nodes : last.a.adj_mat[i][j]}

\* the radii valid_radius is configured with in the comparison
Radii == {Inf, 1, 0}

\* the latest layer call repeated by a layer configured with valid_radius v
RerunRadius(v) ==
    EGNN_forward([cfg EXCEPT !.valid_radius = v], theta, tie, last.feats,
                 last.coors_mean, last.coors_var, last.a)

\* the configured valid_radius does not change which selected neighbours
\* count as valid, nor what the layer returns
RadiusHasNoEffect ==
    \A v \in Radii :
        \A r2 \in {RerunRadius(v)} :
            /\ r2.nbhd_mask = last.r.nbhd_mask
            /\ r2.mask = last.r.mask
            /\ r2.node_out = last.r.node_out
            /\ r2.coors_mean_out = last.r.coors_mean_out
            /\ r2.coors_var_out = last.r.coors_var_out

\* C17 as stated: with only_sparse_neighbors set, K is the maximum
\* out-degree over all nodes (adjacency-declared neighbours, self-loops
\* excluded), whatever num_nearest_neighbors was configured, and the
\* configured valid_radius has no effect on which selected neighbours are
\* valid.
SparseCountIsMaxOutDegree ==
    (last.called /\ cfg.only_sparse_neighbors) =>
        /\ \E i \in Nodes : last.r.K = Cardinality(OutNeighbours(i))
        /\ \A i \in Nodes : last.r.K >= Cardinality(OutNeighbours(i))
        /\ Ran => RadiusHasNoEffect

\* C17: with only_sparse_neighbors set and adj_mat supplied, K is the
\* largest row sum of adj_mat as supplied, self-loops counted, whatever
\* num_nearest_neighbors was configured; the radius used is 0 and the
\* configured valid_radius has no effect on which selected neighbours are
\* valid.
SparseCountIsMaxRowSum ==
    (last.called /\ cfg.only_sparse_neighbors /\ last.a.has_adj) =>
        /\ \E i \in Nodes : last.r.K = Cardinality(RowEntries(i))
        /\ \A i \in Nodes : last.r.K >= Cardinality(RowEntries(i))
        /\ Ran
        /\ last.r.radius = 0
        /\ \A i \in Nodes : \A s \in 1..last.r.L :
              last.r.nbhd_mask[i][s] = (last.r.nbhd_ranking[i][s] <= 0)
        /\ RadiusHasNoEffect

\* a sparse call with a mask on an adjacency with self-loops: K is above
\* the largest out-degree and differs from the configured count, and a
\* selected neighbour within the configured radius is not valid
SparseCountWitness ==
    /\ Ran /\ cfg.only_sparse_neighbors /\ last.a.has_adj /\ last.a.has_mask
    /\ \E i \in Nodes : last.a.adj_mat[i][i]
    /\ \A i \in Nodes : last.r.K > Cardinality(OutNeighbours(i))
    /\ cfg.num_nearest_neighbors \notin {0, last.r.K}
    /\ cfg.valid_radius = Inf
    /\ \E i \in Nodes : \E s \in 1..last.r.L :
          /\ last.r.nbhd_ranking[i][s] > 0
          /\ last.r.nbhd_ranking[i][s] <= cfg.valid_radius
          /\ ~last.r.nbhd_mask[i][s]

====
